---- MODULE Spec2Model ----
(***************************************************************************)
(* A model of the wildfire map viewer: the GeoJSON loader                  *)
(* (src/src/utils/DataLoader.js, which holds the JavaScript class at lines *)
(* 1-219 and its TypeScript port at lines 221-512) and the map component   *)
(* (src/src/components/WildfireMap.ts).                                    *)
(*                                                                         *)
(* JavaScript values are represented as follows.                           *)
(*   - A scalar is a record [t, s, n]: t is the typeof tag, s the text of  *)
(*     a string, n the value of a number as a reduced fraction <<p, q>>.   *)
(*     Coordinates are small integers, so sums and products are exact;  a  *)
(*     quotient is kept as the fraction whose nearest double the code      *)
(*     holds.                                                              *)
(*   - An optional member is a sequence: <<>> when the member is undefined *)
(*     (or null), <<v>> when it holds v.                                   *)
(*   - An object (document, feature or geometry) is a record holding every *)
(*     member the code reads, each optional.  `coordinates` is split by    *)
(*     its shape: point (number[]), line (number[][]), rings (number[][][])*)
(*     and polys (number[][][][]).                                         *)
(*   - A properties bag is a function from its own keys to scalars.        *)
(***************************************************************************)
EXTENDS Integers, Sequences, FiniteSets, TLC

VARIABLES
    build,      \* which of the two DataLoader classes runs: "ts" or "js"
    clock,      \* the time new Date() reads
    doc,        \* the document last handed to isValidGeoJSON / processGeoJSON
    valid,      \* what isValidGeoJSON returned for doc
    arg,        \* the argument object as it is after processGeoJSON returned
    out,        \* what processGeoJSON returned for doc
    outAt,      \* the clock reading of that call
    again,      \* what processGeoJSON returned for out
    againAt,    \* the clock reading of that second call
    propsIn,    \* the bag last handed to standardizeProperties
    propsOut,   \* what standardizeProperties returned for it
    geomIn,     \* the feature last handed to getFeatureCoordinates
    coordsOut,  \* what getFeatureCoordinates returned for it
    areaOut,    \* what calculateApproximateArea returned for its geometry
    located,    \* what onEachFeature got from getFeatureCoordinates, per feature of out
    cache,      \* DataLoader.cache: the result kept for each URL
    calls,      \* the loadGeoJSON calls: where each one stands
    fetches,    \* how many times fetch was called, per URL
    normalizations, \* how many times processGeoJSON was called, per URL
    cleared,    \* whether clearCache has been called
    layerGroup, \* the layers WildfireMap.layerGroup holds
    wildfireLayer,  \* WildfireMap.wildfireLayer
    bounds,     \* WildfireMap.bounds
    view,       \* what the Leaflet map shows
    popup,      \* the popup open on the map
    built,      \* how many layers L.geoJSON has built
    lastKey     \* the last keydown event and what its listener called

loaderVars == <<cache, calls, fetches, normalizations, cleared>>
mapVars == <<layerGroup, wildfireLayer, bounds, view, popup, built, lastKey>>

vars == <<build, clock, doc, valid, arg, out, outAt, again, againAt,
          propsIn, propsOut, geomIn, coordsOut, areaOut, located,
          loaderVars, mapVars>>

---------------------------------------------------------------------------
(* Bounds of the model *)

MaxFeatures == 2
MaxClock == 2
MaxRings == 2
MaxPolygons == 2
MaxCalls == 2
MaxFetches == 2
MaxLayers == 3

---------------------------------------------------------------------------
(* Optional members *)

None == <<>>
Some(x) == <<x>>
IsSome(o) == o # <<>>
The(o) == o[1]

---------------------------------------------------------------------------
(* Numbers: reduced fractions <<p, q>> with q > 0 *)

Abs(i) == IF i < 0 THEN -i ELSE i

RECURSIVE GCD(_, _)
GCD(a, b) == IF b = 0 THEN a ELSE GCD(b, a % b)

Frac(p, q) ==
    LET g == GCD(Abs(p), Abs(q))
        sgn == IF q < 0 THEN -1 ELSE 1
    IN  IF p = 0 THEN <<0, 1>> ELSE <<sgn * (p \div g), sgn * (q \div g)>>

Whole(i) == <<i, 1>>
FracAdd(a, b) == Frac(a[1] * b[2] + b[1] * a[2], a[2] * b[2])

---------------------------------------------------------------------------
(* Scalars *)

Str(s) == [t |-> "string", s |-> s, n |-> <<0, 1>>]
Num(f) == [t |-> "number", s |-> "", n |-> f]
Bool(b) == [t |-> "boolean", s |-> "", n |-> IF b THEN <<1, 1>> ELSE <<0, 1>>]
Null == [t |-> "null", s |-> "", n |-> <<0, 1>>]
\* a member inherited from Object.prototype (a function or an object)
Inherited(name) == [t |-> "object", s |-> name, n |-> <<0, 1>>]

\* JavaScript truthiness, as `!x` and `if (x)` read it
Truthy(v) ==
    CASE v.t = "string" -> v.s # ""
      [] v.t = "number" -> v.n[1] # 0
      [] v.t = "boolean" -> v.n[1] = 1
      [] v.t = "null" -> FALSE
      [] OTHER -> TRUE

\* obj[key] of a bag: <<>> when undefined
Get(bag, key) == IF key \in DOMAIN bag THEN Some(bag[key]) ELSE None

\* obj[key] = value
Put(bag, key, value) ==
    [k \in (DOMAIN bag) \cup {key} |-> IF k = key THEN value ELSE bag[k]]

\* delete obj[key]
Delete(bag, key) == [k \in (DOMAIN bag) \ {key} |-> bag[k]]

EmptyBag == [k \in {} |-> Null]

---------------------------------------------------------------------------
(* Strings: String.prototype.toLowerCase and String.prototype.trim *)

UpperCase == "ABCDEFGHIJKLMNOPQRSTUVWXYZ"
LowerCase == "abcdefghijklmnopqrstuvwxyz"
WhiteSpace == {" ", "\t", "\n"}

CharAt(s, i) == SubSeq(s, i, i)
Rest(s) == SubSeq(s, 2, Len(s))
Front(s) == SubSeq(s, 1, Len(s) - 1)

LowerChar(c) ==
    IF \E i \in 1..Len(UpperCase) : CharAt(UpperCase, i) = c
    THEN CharAt(LowerCase, CHOOSE i \in 1..Len(UpperCase) : CharAt(UpperCase, i) = c)
    ELSE c

RECURSIVE toLowerCase(_)
toLowerCase(s) ==
    IF s = "" THEN "" ELSE LowerChar(CharAt(s, 1)) \o toLowerCase(Rest(s))

RECURSIVE trimStart(_)
trimStart(s) ==
    IF s # "" /\ CharAt(s, 1) \in WhiteSpace THEN trimStart(Rest(s)) ELSE s

RECURSIVE trimEnd(_)
trimEnd(s) ==
    IF s # "" /\ CharAt(s, Len(s)) \in WhiteSpace THEN trimEnd(Front(s)) ELSE s

trim(s) == trimEnd(trimStart(s))

---------------------------------------------------------------------------
(* DataLoader.standardizeRiskLevel *)

riskMappings ==
    [k \in {"low", "minimal", "green", "moderate", "medium", "yellow", "high",
            "orange", "very high", "very_high", "veryhigh", "extreme",
            "critical", "red"} |->
        CASE k \in {"low", "minimal", "green"} -> "low"
          [] k \in {"moderate", "medium", "yellow"} -> "moderate"
          [] k \in {"high", "orange"} -> "high"
          [] k \in {"very high", "very_high", "veryhigh"} -> "very_high"
          [] k \in {"extreme", "critical", "red"} -> "extreme"]

\* riskMappings is an object literal, so a key it does not own is looked up
\* on Object.prototype, whose members are these
ObjectPrototypeMembers ==
    {"constructor", "__proto__", "hasOwnProperty", "isPrototypeOf",
     "propertyIsEnumerable", "toLocaleString", "toString", "valueOf",
     "__defineGetter__", "__defineSetter__", "__lookupGetter__",
     "__lookupSetter__"}

\* riskMappings[key]
riskMappingsAt(key) ==
    IF key \in DOMAIN riskMappings THEN Some(Str(riskMappings[key]))
    ELSE IF key \in ObjectPrototypeMembers THEN Some(Inherited(key))
    ELSE None

standardizeRiskLevel(value) ==
    IF value.t # "string" THEN value
    ELSE LET lowercaseValue == trim(toLowerCase(value.s))
             found == riskMappingsAt(lowercaseValue)
         IN  IF IsSome(found) /\ Truthy(The(found)) THEN The(found)
             ELSE Str(lowercaseValue)

---------------------------------------------------------------------------
(* DataLoader.standardizeProperties *)

\* the rename table, in the order Object.keys lists it
propertyMappings ==
    << <<"RISK_LEVEL", "risk_level">>, <<"riskLevel", "risk_level">>,
       <<"SEVERITY", "severity">>, <<"INTENSITY", "intensity">>,
       <<"TEMP", "temperature">>, <<"temperature_f", "temperature">>,
       <<"HUMIDITY", "humidity">>, <<"humidity_percent", "humidity">>,
       <<"WIND_SPEED", "wind_speed">>, <<"windSpeed", "wind_speed">>,
       <<"wind_mph", "wind_speed">>, <<"NAME", "name">>,
       <<"area_name", "name">>, <<"AREA_NAME", "name">>,
       <<"LAST_UPDATE", "last_update">>, <<"lastUpdate", "last_update">>,
       <<"FORECAST_TIME", "forecast_time">>, <<"forecastTime", "forecast_time">> >>

\* a rename that leaves a target alone once it holds a value
applyMapping_KeepFirst(standardized, oldKey, newKey) ==
    IF oldKey \in DOMAIN standardized
    THEN IF newKey \in DOMAIN standardized
         THEN Delete(standardized, oldKey)
         ELSE Delete(Put(standardized, newKey, standardized[oldKey]), oldKey)
    ELSE standardized

\* a rename that is skipped when the target key is already there
applyMapping_SkipWhenTargetSet(standardized, oldKey, newKey) ==
    IF oldKey \in DOMAIN standardized /\ newKey \notin DOMAIN standardized
    THEN Delete(Put(standardized, newKey, standardized[oldKey]), oldKey)
    ELSE standardized

\* one step of the forEach over the table
applyMapping(standardized, oldKey, newKey) ==
    IF oldKey \in DOMAIN standardized
    THEN LET moved == Put(standardized, newKey, standardized[oldKey])
         IN  IF oldKey # newKey THEN Delete(moved, oldKey) ELSE moved
    ELSE standardized

RECURSIVE applyMappings(_, _)
applyMappings(standardized, i) ==
    IF i > Len(propertyMappings) THEN standardized
    ELSE applyMappings(
             applyMapping(standardized, propertyMappings[i][1], propertyMappings[i][2]),
             i + 1)

\* if (standardized[key]) standardized[key] = standardizeRiskLevel(...)
standardizeValueAt(standardized, key) ==
    IF key \in DOMAIN standardized /\ Truthy(standardized[key])
    THEN Put(standardized, key, standardizeRiskLevel(standardized[key]))
    ELSE standardized

\* the values standardized before the keys are renamed
standardizeProperties_ValuesFirst(properties) ==
    LET copied == [k \in DOMAIN properties |-> properties[k]]
        valued == standardizeValueAt(standardizeValueAt(copied, "risk_level"), "severity")
    IN  applyMappings(valued, 1)

standardizeProperties(properties) ==
    LET copied == [k \in DOMAIN properties |-> properties[k]]
        renamed == applyMappings(copied, 1)
    IN  standardizeValueAt(standardizeValueAt(renamed, "risk_level"), "severity")

---------------------------------------------------------------------------
(* Objects.  kind is what `!data || typeof data !== 'object'` tells apart:  *)
(* "null", "primitive", "array" or "object".                               *)

Blank ==
    [kind |-> "object", type |-> None, features |-> None, geometry |-> None,
     properties |-> None, coordinates |-> None]

\* a `coordinates` member of one of the four shapes
Shaped == [point |-> <<>>, line |-> <<>>, rings |-> <<>>, polys |-> <<>>]

\* interface Point / Polygon / MultiPolygon / Geometry
PointGeometry(p) ==
    [Blank EXCEPT !.type = Some("Point"),
                  !.coordinates = Some([Shaped EXCEPT !.point = p])]
LineStringGeometry(l) ==
    [Blank EXCEPT !.type = Some("LineString"),
                  !.coordinates = Some([Shaped EXCEPT !.line = l])]
PolygonGeometry(rings) ==
    [Blank EXCEPT !.type = Some("Polygon"),
                  !.coordinates = Some([Shaped EXCEPT !.rings = rings])]
MultiPolygonGeometry(polys) ==
    [Blank EXCEPT !.type = Some("MultiPolygon"),
                  !.coordinates = Some([Shaped EXCEPT !.polys = polys])]

\* interface Feature: geometry and properties are optional members
Feature(geometry, properties) ==
    [Blank EXCEPT !.type = Some("Feature"), !.geometry = geometry,
                  !.properties = properties]

\* interface FeatureCollection
FeatureCollection(features) ==
    [Blank EXCEPT !.type = Some("FeatureCollection"),
                  !.features = Some([isArray |-> TRUE, items |-> features])]

---------------------------------------------------------------------------
(* DataLoader.isValidGeoJSON *)

validTypes ==
    {"FeatureCollection", "Feature", "Point", "LineString", "Polygon",
     "MultiPoint", "MultiLineString", "MultiPolygon", "GeometryCollection"}

\* isValidGeoJSON without the check of `features`
isValidGeoJSON_TypeOnly(data) ==
    /\ data.kind \notin {"null", "primitive"}
    /\ IsSome(data.type)
    /\ The(data.type) \in validTypes

isValidGeoJSON(data) ==
    IF data.kind \in {"null", "primitive"} THEN FALSE
    ELSE IF ~IsSome(data.type) \/ The(data.type) = "" THEN FALSE
    ELSE IF The(data.type) \notin validTypes THEN FALSE
    ELSE IF The(data.type) = "FeatureCollection"
         THEN IsSome(data.features) /\ The(data.features).isArray
    ELSE TRUE

---------------------------------------------------------------------------
(* DataLoader.calculatePolygonArea and calculateApproximateArea *)

\* the loop of calculatePolygonArea from index i on (i counts from 1)
RECURSIVE shoelaceFrom(_, _)
shoelaceFrom(coordinates, i) ==
    IF i > Len(coordinates) - 1 THEN 0
    ELSE coordinates[i][1] * coordinates[i + 1][2]
         - coordinates[i + 1][1] * coordinates[i][2]
         + shoelaceFrom(coordinates, i + 1)

calculatePolygonArea(coordinates) ==
    IF Len(coordinates) < 3 THEN Whole(0)
    ELSE Frac(Abs(shoelaceFrom(coordinates, 1)), 2)

\* geometry.coordinates.reduce((total, polygon) => total + area(polygon[0]), 0)
RECURSIVE reducePolygons(_, _)
reducePolygons(polys, i) ==
    IF i = 0 THEN Whole(0)
    ELSE FracAdd(reducePolygons(polys, i - 1), calculatePolygonArea(polys[i][1]))

\* calculateApproximateArea measuring a Polygon by its last ring
calculateApproximateArea_LastRing(geometry) ==
    IF The(geometry.type) = "Polygon"
    THEN calculatePolygonArea(The(geometry.coordinates).rings[
             Len(The(geometry.coordinates).rings)])
    ELSE IF The(geometry.type) = "MultiPolygon"
    THEN reducePolygons(The(geometry.coordinates).polys,
                        Len(The(geometry.coordinates).polys))
    ELSE Whole(0)

calculateApproximateArea(geometry) ==
    IF The(geometry.type) = "Polygon"
    THEN calculatePolygonArea(The(geometry.coordinates).rings[1])
    ELSE IF The(geometry.type) = "MultiPolygon"
    THEN reducePolygons(The(geometry.coordinates).polys,
                        Len(The(geometry.coordinates).polys))
    ELSE Whole(0)

\* calculateApproximateArea throws a TypeError: it reads `.length` or `[0]`
\* of undefined when `coordinates`, or a polygon's first ring, is missing
areaThrows(geometry) ==
    CASE The(geometry.type) = "Polygon" ->
            \/ ~IsSome(geometry.coordinates)
            \/ Len(The(geometry.coordinates).rings) = 0
      [] The(geometry.type) = "MultiPolygon" ->
            \/ ~IsSome(geometry.coordinates)
            \/ \E i \in 1..Len(The(geometry.coordinates).polys) :
                   Len(The(geometry.coordinates).polys[i]) = 0
      [] OTHER -> FALSE

---------------------------------------------------------------------------
(* DataLoader.processFeature and processGeoJSON *)

Digits == "0123456789"

\* new Date().toISOString() when the clock reads t
toISOString(t) == "2025-01-01T00:00:0" \o CharAt(Digits, t + 1) \o ".000Z"

\* processFeature without the timestamp
processFeature_NoStamp(feature, t) ==
    LET created == IF ~IsSome(feature.properties) THEN EmptyBag
                   ELSE The(feature.properties)
        standardized == standardizeProperties(created)
        measured ==
            IF IsSome(feature.geometry)
               /\ The(The(feature.geometry).type) \in {"Polygon", "MultiPolygon"}
            THEN Put(standardized, "calculated_area",
                     Num(calculateApproximateArea(The(feature.geometry))))
            ELSE standardized
    IN  [feature EXCEPT !.properties = Some(measured)]

\* processFeature stamping every time, whatever `processed_at` holds
processFeature_Restamp(feature, t) ==
    LET created == IF ~IsSome(feature.properties) THEN EmptyBag
                   ELSE The(feature.properties)
        stamped == Put(created, "processed_at", Str(toISOString(t)))
        standardized == standardizeProperties(stamped)
        measured ==
            IF IsSome(feature.geometry)
               /\ The(The(feature.geometry).type) \in {"Polygon", "MultiPolygon"}
            THEN Put(standardized, "calculated_area",
                     Num(calculateApproximateArea(The(feature.geometry))))
            ELSE standardized
    IN  [feature EXCEPT !.properties = Some(measured)]

\* processFeature keeping a `calculated_area` that is already there
processFeature_KeepArea(feature, t) ==
    LET created == IF ~IsSome(feature.properties) THEN EmptyBag
                   ELSE The(feature.properties)
        stamped == IF "processed_at" \in DOMAIN created
                      /\ Truthy(created["processed_at"])
                   THEN created
                   ELSE Put(created, "processed_at", Str(toISOString(t)))
        standardized == standardizeProperties(stamped)
        measured ==
            IF /\ IsSome(feature.geometry)
               /\ The(The(feature.geometry).type) \in {"Polygon", "MultiPolygon"}
               /\ "calculated_area" \notin DOMAIN standardized
            THEN Put(standardized, "calculated_area",
                     Num(calculateApproximateArea(The(feature.geometry))))
            ELSE standardized
    IN  [feature EXCEPT !.properties = Some(measured)]

\* processFeature measuring whatever geometry the feature has
processFeature_AnyGeometry(feature, t) ==
    LET created == IF ~IsSome(feature.properties) THEN EmptyBag
                   ELSE The(feature.properties)
        stamped == IF "processed_at" \in DOMAIN created
                      /\ Truthy(created["processed_at"])
                   THEN created
                   ELSE Put(created, "processed_at", Str(toISOString(t)))
        standardized == standardizeProperties(stamped)
        measured ==
            IF IsSome(feature.geometry)
            THEN Put(standardized, "calculated_area",
                     Num(calculateApproximateArea(The(feature.geometry))))
            ELSE standardized
    IN  [feature EXCEPT !.properties = Some(measured)]

processFeature(feature, t) ==
    LET created == IF ~IsSome(feature.properties) THEN EmptyBag
                   ELSE The(feature.properties)
        stamped == IF "processed_at" \in DOMAIN created
                      /\ Truthy(created["processed_at"])
                   THEN created
                   ELSE Put(created, "processed_at", Str(toISOString(t)))
        standardized == standardizeProperties(stamped)
        measured ==
            IF IsSome(feature.geometry)
               /\ The(The(feature.geometry).type) \in {"Polygon", "MultiPolygon"}
            THEN Put(standardized, "calculated_area",
                     Num(calculateApproximateArea(The(feature.geometry))))
            ELSE standardized
    IN  [feature EXCEPT !.properties = Some(measured)]

\* processFeature does not return: the area computation throws
featureThrows(feature) ==
    /\ IsSome(feature.geometry)
    /\ The(The(feature.geometry).type) \in {"Polygon", "MultiPolygon"}
    /\ areaThrows(The(feature.geometry))

\* the TypeError that leaves processGeoJSON instead of a document
Thrown == [Blank EXCEPT !.kind = "TypeError"]

\* JSON.parse(JSON.stringify(data)): a new object holding the same members.
\* data is what response.json() produced, so the round trip loses nothing.
\* no copy: the body works on the object it was handed
JSONClone_Alias(data) == [fresh |-> FALSE, value |-> data]

JSONClone(data) == [fresh |-> TRUE, value |-> data]

processAll(features, t) == [i \in 1..Len(features) |-> processFeature(features[i], t)]

\* What processGeoJSON returns (ret) and what the object it was handed holds
\* when it returns (arg).  processedData is the object the body works on; its
\* members are assigned in place.
processGeoJSON(b, data, t) ==
    LET processedData == JSONClone(data)
        value == processedData.value
        type == The(value.type)
        inPlace ==
            IF type = "FeatureCollection"
            THEN [value EXCEPT !.features =
                     Some([isArray |-> TRUE,
                           items |-> processAll(The(value.features).items, t)])]
            ELSE IF type = "Feature" THEN processFeature(value, t)
            ELSE value
        ret ==
            IF b = "js" \/ type = "FeatureCollection" THEN inPlace
            ELSE IF type = "Feature" THEN FeatureCollection(<<inPlace>>)
            ELSE FeatureCollection(<<Feature(Some(inPlace), Some(EmptyBag))>>)
        throws ==
            IF type = "FeatureCollection"
            THEN \E i \in 1..Len(The(value.features).items) :
                    featureThrows(The(value.features).items[i])
            ELSE type = "Feature" /\ featureThrows(value)
    IN  IF throws
        THEN [ret |-> Thrown, arg |-> data]
        ELSE [ret |-> ret, arg |-> IF processedData.fresh THEN data ELSE inPlace]

---------------------------------------------------------------------------
(* WildfireMap.getPolygonCentroid and getFeatureCoordinates.  A result is   *)
(* a coordinate pair ("value"), null ("null") or a thrown TypeError.       *)

Origin == <<Whole(0), Whole(0)>>
Coordinate(x, y) == [kind |-> "value", at |-> <<x, y>>]
NullCoordinate == [kind |-> "null", at |-> Origin]
Undefined == [kind |-> "undefined", at |-> Origin]
TypeError == [kind |-> "TypeError", at |-> Origin]

\* x1 * y2 - x2 * y1 of the edge from vertex i to vertex i + 1
cross(coordinates, i) ==
    coordinates[i][1] * coordinates[i + 1][2]
    - coordinates[i + 1][1] * coordinates[i][2]

\* the loop of getPolygonCentroid over the first n edges: <<x, y, area>>
RECURSIVE centroidSums(_, _)
centroidSums(coordinates, n) ==
    IF n <= 0 THEN <<0, 0, 0>>
    ELSE LET before == centroidSums(coordinates, n - 1)
             c == cross(coordinates, n)
         IN  << before[1] + (coordinates[n][1] + coordinates[n + 1][1]) * c,
                before[2] + (coordinates[n][2] + coordinates[n + 1][2]) * c,
                before[3] + c >>

getPolygonCentroid(coordinates) ==
    LET len == Len(coordinates) - 1
        sums == centroidSums(coordinates, len)
        area == Frac(sums[3], 2)
    IN  IF area = Whole(0)
        THEN IF Len(coordinates) = 0 THEN TypeError
             ELSE Coordinate(Whole(coordinates[1][1]), Whole(coordinates[1][2]))
        ELSE Coordinate(Frac(sums[1] * area[2], 6 * area[1]),
                        Frac(sums[2] * area[2], 6 * area[1]))

\* getFeatureCoordinates reading the last ring where it should read the first
getFeatureCoordinates_LastRing(feature) ==
    IF ~IsSome(feature.geometry) THEN NullCoordinate
    ELSE LET type == The(The(feature.geometry).type)
             present == IsSome(The(feature.geometry).coordinates)
             coordinates == The(The(feature.geometry).coordinates)
         IN  CASE type = "Point" ->
                    IF ~present THEN Undefined
                    ELSE Coordinate(Whole(coordinates.point[1]),
                                    Whole(coordinates.point[2]))
               [] type = "Polygon" ->
                    IF ~present THEN TypeError
                    ELSE IF Len(coordinates.rings) = 0 THEN TypeError
                    ELSE getPolygonCentroid(coordinates.rings[Len(coordinates.rings)])
               [] type = "MultiPolygon" ->
                    IF ~present THEN TypeError
                    ELSE IF Len(coordinates.polys) = 0 THEN TypeError
                    ELSE IF Len(coordinates.polys[1]) = 0 THEN TypeError
                    ELSE getPolygonCentroid(
                             coordinates.polys[1][Len(coordinates.polys[1])])
               [] OTHER -> NullCoordinate

getFeatureCoordinates(feature) ==
    IF ~IsSome(feature.geometry) THEN NullCoordinate
    ELSE LET type == The(The(feature.geometry).type)
             present == IsSome(The(feature.geometry).coordinates)
             coordinates == The(The(feature.geometry).coordinates)
         IN  CASE type = "Point" ->
                    IF ~present THEN Undefined
                    ELSE Coordinate(Whole(coordinates.point[1]),
                                    Whole(coordinates.point[2]))
               [] type = "Polygon" ->
                    IF ~present THEN TypeError
                    ELSE IF Len(coordinates.rings) = 0 THEN TypeError
                    ELSE getPolygonCentroid(coordinates.rings[1])
               [] type = "MultiPolygon" ->
                    IF ~present THEN TypeError
                    ELSE IF Len(coordinates.polys) = 0 THEN TypeError
                    ELSE IF Len(coordinates.polys[1]) = 0 THEN TypeError
                    ELSE getPolygonCentroid(coordinates.polys[1][1])
               [] OTHER -> NullCoordinate

---------------------------------------------------------------------------
(* The documents, features and bags the operations are run on *)

Square == << <<0, 0>>, <<2, 0>>, <<2, 2>>, <<0, 2>>, <<0, 0>> >>
Clockwise == << <<0, 0>>, <<0, 2>>, <<2, 2>>, <<2, 0>>, <<0, 0>> >>
Unit == << <<3, 3>>, <<4, 3>>, <<4, 4>>, <<3, 4>>, <<3, 3>> >>
Triangle == << <<0, 0>>, <<1, 0>>, <<0, 1>>, <<0, 0>> >>
Wedge == << <<-1, 0>>, <<3, 1>>, <<0, 2>>, <<-1, 0>> >>
Collinear == << <<0, 0>>, <<1, 1>>, <<2, 2>>, <<0, 0>> >>
TwoPoints == << <<1, 2>>, <<3, 4>> >>
OnePoint == << <<5, 6>> >>

Stamp == Str("2020-06-01T12:00:00.000Z")

DocumentGeometries ==
    { None,
      Some(PointGeometry(<<1, 2>>)),
      Some(LineStringGeometry(TwoPoints)),
      Some(PolygonGeometry(<<Square>>)),
      Some(PolygonGeometry(<<Square, Triangle>>)),
      Some(PolygonGeometry(<<Clockwise>>)),
      Some(PolygonGeometry(<<TwoPoints>>)),
      Some(MultiPolygonGeometry(<< <<Square>>, <<Unit>> >>)),
      Some(MultiPolygonGeometry(<<>>)),
      Some([Blank EXCEPT !.type = Some("Polygon")]) }

DocumentProperties ==
    { None,
      Some(EmptyBag),
      Some([k \in {"processed_at"} |-> Stamp]),
      Some([k \in {"processed_at"} |-> Str("")]),
      Some([k \in {"RISK_LEVEL"} |-> Str("RED")]),
      Some([k \in {"calculated_area", "processed_at"} |->
               IF k = "processed_at" THEN Stamp ELSE Num(Whole(99))]),
      Some([k \in {"calculated_area", "NAME"} |->
               IF k = "NAME" THEN Str("Pine Ridge") ELSE Str("large")]) }

Features ==
    { Feature(g, p) : g \in DocumentGeometries, p \in DocumentProperties }

\* the features a collection is filled from
CollectionFeatures ==
    { Feature(None, None),
      Feature(Some(PointGeometry(<<1, 2>>)), Some(EmptyBag)),
      Feature(Some(PointGeometry(<<1, 2>>)),
              Some([k \in {"processed_at"} |-> Stamp])),
      Feature(Some(LineStringGeometry(TwoPoints)),
              Some([k \in {"RISK_LEVEL"} |-> Str("RED")])),
      Feature(Some(PolygonGeometry(<<Square>>)), None),
      Feature(Some(PolygonGeometry(<<Square, Triangle>>)),
              Some([k \in {"calculated_area", "processed_at"} |->
                       IF k = "processed_at" THEN Stamp ELSE Num(Whole(99))])),
      Feature(Some(MultiPolygonGeometry(<< <<Square>>, <<Unit>> >>)),
              Some([k \in {"processed_at"} |-> Str("")])),
      Feature(Some(MultiPolygonGeometry(<<>>)),
              Some([k \in {"calculated_area", "NAME"} |->
                       IF k = "NAME" THEN Str("Pine Ridge") ELSE Str("large")])) }

FeatureLists ==
    UNION { [1..n -> CollectionFeatures] : n \in 0..MaxFeatures }

\* documents of a recognised type with nothing else in them
TypeOnly == { [Blank EXCEPT !.type = Some(ty)] : ty \in validTypes }

\* documents isValidGeoJSON has a reason to refuse
Malformed ==
    { [Blank EXCEPT !.kind = "null"],
      [Blank EXCEPT !.kind = "primitive"],
      [Blank EXCEPT !.kind = "array"],
      Blank,
      [Blank EXCEPT !.type = Some("")],
      [Blank EXCEPT !.type = Some("Topology")],
      [Blank EXCEPT !.type = Some("feature")],
      [Blank EXCEPT !.type = Some("FeatureCollection"),
                    !.features = Some([isArray |-> FALSE, items |-> <<>>])],
      [Blank EXCEPT !.type = Some("Topology"),
                    !.features = Some([isArray |-> TRUE, items |-> <<>>])] }

Geometries == { The(g) : g \in DocumentGeometries \ {None} }

Documents ==
    { FeatureCollection(fs) : fs \in FeatureLists }
    \cup Features \cup Geometries \cup TypeOnly \cup Malformed

\* the rings, polygons and features the geometry is computed on
Rings ==
    { Square, Clockwise, Unit, Triangle, Wedge, Collinear, TwoPoints, OnePoint, <<>> }

RingLists == UNION { [1..n -> Rings] : n \in 1..MaxRings }

SimplePolygons == { <<ring>> : ring \in Rings } \cup { <<Square, Triangle>> }

PolygonLists == UNION { [1..n -> SimplePolygons] : n \in 0..MaxPolygons }

Points == { <<x, y>> : x \in {-1, 0, 2}, y \in {-1, 0, 2} }

LocatedGeometries ==
    { PolygonGeometry(rings) : rings \in RingLists }
    \cup { MultiPolygonGeometry(polys) : polys \in PolygonLists }
    \cup { PointGeometry(p) : p \in Points }
    \cup { LineStringGeometry(TwoPoints),
           PolygonGeometry(<<>>),
           MultiPolygonGeometry(<< <<>> >>),
           [Blank EXCEPT !.type = Some("Point")],
           [Blank EXCEPT !.type = Some("Polygon")],
           [Blank EXCEPT !.type = Some("MultiPolygon")],
           [Blank EXCEPT !.type = Some("GeometryCollection")] }

LocatedFeatures ==
    { Feature(Some(g), Some(EmptyBag)) : g \in LocatedGeometries }
    \cup { Feature(None, Some(EmptyBag)) }

\* the values a property is given
Values ==
    { Str("RED"), Str(" Very High\t"), Str("Purple "), Str("constructor"),
      Str(""), Num(Whole(3)), Null }

Sources == { propertyMappings[i][1] : i \in 1..Len(propertyMappings) }
Targets == { propertyMappings[i][2] : i \in 1..Len(propertyMappings) }
SourcesOf(target) ==
    { propertyMappings[i][1] :
        i \in { j \in 1..Len(propertyMappings) : propertyMappings[j][2] = target } }

\* every bag over one target and the keys renamed to it
GroupBags(target) ==
    UNION { [keys -> Values] : keys \in SUBSET (SourcesOf(target) \cup {target}) }

\* a bag holding every key of the rename table, each with its own value
FullTable == [k \in Sources |-> Str(k)]

Bags ==
    UNION { GroupBags(target) : target \in Targets }
    \cup { Put(bag, "cluster_center", Str("RED")) : bag \in GroupBags("risk_level") }
    \cup { Put(bag, "SEVERITY", Str("Critical")) : bag \in GroupBags("risk_level") }
    \cup { FullTable }

\* the URLs the application loads
URLs == { "./wildfire_forecast_15min.geojson", "./wildfire_forecast_60min.geojson" }

\* response.status
Statuses == { 200, 404 }

\* what response.json() resolves to: a collection of one feature, a bare
\* feature, a document isValidGeoJSON refuses, and a feature whose Polygon has
\* no coordinates
ServedDocuments ==
    { FeatureCollection(<<Feature(Some(PointGeometry(<<1, 2>>)), Some(EmptyBag))>>),
      Feature(Some(PolygonGeometry(<<Square>>)),
              Some([k \in {"RISK_LEVEL"} |-> Str("RED")])),
      [Blank EXCEPT !.type = Some("Topology")],
      Feature(Some([Blank EXCEPT !.type = Some("Polygon")]), None) }

\* the collections handed to addWildfireLayer: no feature, a point, a square,
\* and a MultiPolygon with no polygon in it
Datasets ==
    { FeatureCollection(<<>>),
      FeatureCollection(<<Feature(Some(PointGeometry(<<1, 2>>)), Some(EmptyBag))>>),
      FeatureCollection(<<Feature(Some(PolygonGeometry(<<Square>>)), Some(EmptyBag)),
                          Feature(Some(PolygonGeometry(<<Unit>>)), Some(EmptyBag))>>),
      FeatureCollection(<<Feature(Some(MultiPolygonGeometry(<<>>)), Some(EmptyBag))>>) }

\* e.key and e.target.tagName of the keydown events
Keys == { "f", "F", "Escape", "?", "x", "/" }
Tags == { "INPUT", "TEXTAREA", "DIV", "BODY" }

\* what the map shows: the view it was created with, a view fitted to a box,
\* or a view the user moved to
NoBox == [sw |-> <<0, 0>>, ne |-> <<0, 0>>]
InitialView == [kind |-> "initial", box |-> NoBox, padding |-> 0]

\* a loadGeoJSON(url) call waiting for fetch
Fetching(url) ==
    [pc |-> "fetching", url |-> url, data |-> None, result |-> None, error |-> ""]

\* The calls whose promise is pending or not yet consumed are a multiset of
\* call states: a function from the states present to how many calls are in
\* each.
NoCalls == [call \in {} |-> 0]
AddCall(pending, call) ==
    [x \in DOMAIN pending \cup {call} |->
        IF x \notin DOMAIN pending THEN 1
        ELSE IF x = call THEN pending[x] + 1 ELSE pending[x]]
RemoveCall(pending, call) ==
    [x \in { y \in DOMAIN pending : y # call \/ pending[y] > 1 } |->
        IF x = call THEN pending[x] - 1 ELSE pending[x]]
CallCount(pending) ==
    Cardinality(UNION { { <<call, i>> : i \in 1..pending[call] } : call \in DOMAIN pending })

---------------------------------------------------------------------------
(* Validation and normalisation of one document after another *)

Init ==
    /\ build \in {"ts", "js"}
    /\ clock = 0
    /\ doc = None
    /\ valid = None
    /\ arg = None
    /\ out = None
    /\ outAt = 0
    /\ again = None
    /\ againAt = 0
    /\ propsIn = None
    /\ propsOut = None
    /\ geomIn = None
    /\ coordsOut = None
    /\ areaOut = None
    /\ located = None
    /\ cache = [url \in URLs |-> None]
    /\ calls = NoCalls
    /\ fetches = [url \in URLs |-> 0]
    /\ normalizations = [url \in URLs |-> 0]
    /\ cleared = FALSE
    /\ layerGroup = {}
    /\ wildfireLayer = None
    /\ bounds = None
    /\ view = InitialView
    /\ popup = None
    /\ built = 0
    /\ lastKey = None

\* time passes between calls
Tick ==
    /\ clock < MaxClock
    /\ clock' = clock + 1
    /\ UNCHANGED <<build, doc, valid, arg, out, outAt, again, againAt,
                   propsIn, propsOut, geomIn, coordsOut, areaOut,
                   located, loaderVars, mapVars>>

\* loadGeoJSON hands the parsed response to isValidGeoJSON
Validate(data) ==
    /\ doc = None
    /\ doc' = Some(data)
    /\ valid' = Some(isValidGeoJSON(data))
    /\ UNCHANGED <<build, clock, arg, out, outAt, again, againAt,
                   propsIn, propsOut, geomIn, coordsOut, areaOut,
                   located, loaderVars, mapVars>>

\* ... and, when it is valid, to processGeoJSON
Process ==
    /\ valid = Some(TRUE)
    /\ out = None
    /\ LET r == processGeoJSON(build, The(doc), clock)
       IN  /\ out' = Some(r.ret)
           /\ arg' = Some(r.arg)
    /\ outAt' = clock
    /\ UNCHANGED <<build, clock, doc, valid, again, againAt,
                   propsIn, propsOut, geomIn, coordsOut, areaOut,
                   located, loaderVars, mapVars>>

\* the result is handed to processGeoJSON once more
Reprocess ==
    /\ out # None
    /\ again = None
    /\ isValidGeoJSON(The(out))
    /\ again' = Some(processGeoJSON(build, The(out), clock).ret)
    /\ againAt' = clock
    /\ UNCHANGED <<build, clock, doc, valid, arg, out, outAt,
                   propsIn, propsOut, geomIn, coordsOut, areaOut,
                   located, loaderVars, mapVars>>

\* the caller is done with the document
Discard ==
    /\ doc # None
    /\ doc' = None
    /\ valid' = None
    /\ arg' = None
    /\ out' = None
    /\ again' = None
    /\ outAt' = 0
    /\ againAt' = 0
    /\ located' = None
    /\ UNCHANGED <<build, clock, propsIn, propsOut, geomIn, coordsOut, areaOut,
                   loaderVars, mapVars>>

\* the result is put on the map: onEachFeature, for each feature that has
\* properties, asks getFeatureCoordinates for the coordinate its popup shows
\* (each feature's outcome is recorded on its own)
Show ==
    /\ out # None
    /\ The(out) # Thrown
    /\ located = None
    /\ LET shown == IF The(out).type = Some("FeatureCollection")
                    THEN The(The(out).features).items
                    ELSE IF The(out).type = Some("Feature") THEN <<The(out)>>
                    ELSE <<>>
       IN  located' =
              Some([i \in 1..Len(shown) |->
                       IF IsSome(shown[i].properties)
                       THEN Some(getFeatureCoordinates(shown[i]))
                       ELSE None])
    /\ UNCHANGED <<build, clock, doc, valid, arg, out, outAt, again, againAt,
                   propsIn, propsOut, geomIn, coordsOut, areaOut,
                   loaderVars, mapVars>>

Next ==
    \/ Tick
    \/ \E data \in Documents : Validate(data)
    \/ Process
    \/ Reprocess
    \/ Show
    \/ Discard

Spec == Init /\ [][Next]_vars

---------------------------------------------------------------------------
(* Reading a document's features *)

IsCollection(d) == d.type = Some("FeatureCollection")
IsFeature(d) == d.type = Some("Feature")
IsGeometry(d) == IsSome(d.type) /\ ~IsCollection(d) /\ ~IsFeature(d)

\* the features of a collection, or the one feature a bare Feature is
FeaturesOf(d) ==
    IF IsCollection(d) THEN The(d.features).items
    ELSE IF IsFeature(d) THEN <<d>>
    ELSE <<>>

IsPolygonal(feature) ==
    /\ IsSome(feature.geometry)
    /\ The(feature.geometry).type \in {Some("Polygon"), Some("MultiPolygon")}

Completed(o) == o # None /\ The(o) # Thrown

---------------------------------------------------------------------------
(* Claims about isValidGeoJSON and processGeoJSON, under Spec *)

\* C1: isValidGeoJSON returns false for a value that is not an object, has
\* no `type` or has a `type` outside the nine recognised strings; for a
\* FeatureCollection it returns true exactly when `features` is an array;
\* for the other eight types it returns true whatever else the value holds.
C1_ValidateContract ==
    valid # None =>
        LET d == The(doc)
            recognised == /\ d.kind \notin {"null", "primitive"}
                          /\ IsSome(d.type)
                          /\ The(d.type) \in validTypes
        IN  The(valid) =
                IF ~recognised THEN FALSE
                ELSE IF The(d.type) = "FeatureCollection"
                     THEN IsSome(d.features) /\ The(d.features).isArray
                ELSE TRUE

\* a collection whose `features` is not an array has been refused
C1_Witness ==
    /\ valid = Some(FALSE)
    /\ IsCollection(The(doc))
    /\ IsSome(The(doc).features)
    /\ ~The(The(doc).features).isArray

\* C2 (as claimed): for every document that passes isValidGeoJSON,
\* processGeoJSON returns a FeatureCollection; a bare Feature is wrapped in a
\* collection of exactly that feature, a bare geometry in a collection of
\* exactly one feature carrying that geometry.
C2_AlwaysCollection ==
    out # None =>
        LET d == The(doc)
            o == The(out)
        IN  /\ IsCollection(o)
            /\ IsFeature(d) =>
                  /\ Len(FeaturesOf(o)) = 1
                  /\ FeaturesOf(o)[1].geometry = d.geometry
            /\ IsGeometry(d) =>
                  /\ Len(FeaturesOf(o)) = 1
                  /\ FeaturesOf(o)[1].geometry = Some(d)

\* C3 (as claimed): every feature of the collection processGeoJSON returns
\* has a properties bag that is present, non-empty and holds `processed_at`.
C3_PropertiesStamped ==
    (Completed(out) /\ IsCollection(The(out))) =>
        \A i \in 1..Len(FeaturesOf(The(out))) :
            LET f == FeaturesOf(The(out))[i]
            IN  /\ IsSome(f.properties)
                /\ "processed_at" \in DOMAIN The(f.properties)

\* C3 (amended): every feature processGeoJSON returns for a FeatureCollection
\* or a bare Feature has a properties bag holding a `processed_at` text; the
\* feature the TypeScript class wraps a bare geometry in has a properties bag
\* that is present and empty.
C3_StampedUnlessWrapped ==
    Completed(out) =>
        LET d == The(doc)
            o == The(out)
        IN  /\ ~IsGeometry(d) =>
                  /\ Len(FeaturesOf(o)) = Len(FeaturesOf(d))
                  /\ \A i \in 1..Len(FeaturesOf(o)) :
                        LET f == FeaturesOf(o)[i]
                        IN  /\ IsSome(f.properties)
                            /\ "processed_at" \in DOMAIN The(f.properties)
                            /\ Truthy(The(f.properties)["processed_at"])
            /\ (IsGeometry(d) /\ IsCollection(o)) =>
                  /\ Len(FeaturesOf(o)) = 1
                  /\ FeaturesOf(o)[1].properties = Some(EmptyBag)

\* a feature that came without properties has been given a stamped bag
C3_Witness ==
    /\ Completed(out)
    /\ \E i \in 1..Len(FeaturesOf(The(doc))) :
          /\ FeaturesOf(The(doc))[i].properties = None
          /\ The(FeaturesOf(The(out))[i].properties)["processed_at"]
                = Str(toISOString(outAt))

C5_StampKept ==
    (Completed(out) /\ Completed(again)) =>
        \A i \in 1..Len(FeaturesOf(The(out))) :
            LET first == FeaturesOf(The(out))[i].properties
                second == FeaturesOf(The(again))[i].properties
            IN  /\ IsSome(first)
                /\ IsSome(second)
                /\ Get(The(second), "processed_at") = Get(The(first), "processed_at")

\* C5 (amended): when processGeoJSON is run on its own result, every feature
\* that has a `processed_at` in the first result (every feature of a
\* FeatureCollection or bare Feature input) has the same one in the second,
\* whatever the clock reads at the second call; the feature wrapped around a
\* bare geometry has none in the first result and is stamped by the second
\* run.
C5_StampKeptWhenPresent ==
    (Completed(out) /\ Completed(again)) =>
        /\ Len(FeaturesOf(The(again))) = Len(FeaturesOf(The(out)))
        /\ \A i \in 1..Len(FeaturesOf(The(out))) :
              LET first == FeaturesOf(The(out))[i].properties
                  second == FeaturesOf(The(again))[i].properties
              IN  (IsSome(first) /\ "processed_at" \in DOMAIN The(first)) =>
                      /\ IsSome(second)
                      /\ Get(The(second), "processed_at")
                            = Get(The(first), "processed_at")
        /\ ~IsGeometry(The(doc)) =>
              \A i \in 1..Len(FeaturesOf(The(out))) :
                  /\ IsSome(FeaturesOf(The(out))[i].properties)
                  /\ "processed_at" \in DOMAIN The(FeaturesOf(The(out))[i].properties)
        /\ (IsGeometry(The(doc)) /\ IsCollection(The(out))) =>
              Get(The(FeaturesOf(The(again))[1].properties), "processed_at")
                  = Some(Str(toISOString(againAt)))

\* a feature stamped by the first run went through a second run at a later
\* time
C5_Witness ==
    /\ Completed(out)
    /\ Completed(again)
    /\ againAt > outAt
    /\ \E i \in 1..Len(FeaturesOf(The(out))) :
          /\ The(FeaturesOf(The(out))[i].properties)["processed_at"]
                = Str(toISOString(outAt))
          /\ The(FeaturesOf(The(again))[i].properties)["processed_at"]
                = Str(toISOString(outAt))

---------------------------------------------------------------------------
(* standardizeProperties run on one bag after another *)

Standardize(properties) ==
    /\ propsIn = None
    /\ propsIn' = Some(properties)
    /\ propsOut' = Some(standardizeProperties(properties))
    /\ UNCHANGED <<build, clock, doc, valid, arg, out, outAt, again, againAt,
                   geomIn, coordsOut, areaOut,
                   located, loaderVars, mapVars>>

\* the caller is done with the bag
Forget ==
    /\ propsIn # None
    /\ propsIn' = None
    /\ propsOut' = None
    /\ UNCHANGED <<build, clock, doc, valid, arg, out, outAt, again, againAt,
                   geomIn, coordsOut, areaOut,
                   located, loaderVars, mapVars>>

NextProps ==
    \/ \E properties \in Bags : Standardize(properties)
    \/ Forget

SpecProps == Init /\ [][NextProps]_vars

\* the position in the rename table of the last source of `target` that
\* `bag` holds
LastSource(bag, target) ==
    LET held == { i \in 1..Len(propertyMappings) :
                    /\ propertyMappings[i][2] = target
                    /\ propertyMappings[i][1] \in DOMAIN bag }
    IN  CHOOSE i \in held : \A j \in held : j <= i

\* the value a renamed source ends with under `target`
Settled(target, value) ==
    IF target \in {"risk_level", "severity"} THEN standardizeRiskLevel(value)
    ELSE value

\* C7: after standardizeProperties none of the 18 source keys remains; a
\* source key's value is found under its target key, standardized when the
\* target is risk_level or severity; {RISK_LEVEL: "RED"} gives exactly
\* {risk_level: "extreme"}.
C7_Renamed ==
    propsOut # None =>
        LET given == The(propsIn)
            got == The(propsOut)
        IN  /\ \A k \in Sources : k \notin DOMAIN got
            /\ \A target \in Targets :
                  LET held == SourcesOf(target) \cap DOMAIN given
                  IN  Cardinality(held) = 1 =>
                          /\ target \in DOMAIN got
                          /\ \A k \in held : got[target] = Settled(target, given[k])
            /\ given = [k \in {"RISK_LEVEL"} |-> Str("RED")] =>
                  got = [k \in {"risk_level"} |-> Str("extreme")]

\* {RISK_LEVEL: "RED"} has been standardized
C7_Witness ==
    /\ propsIn = Some([k \in {"RISK_LEVEL"} |-> Str("RED")])
    /\ propsOut = Some([k \in {"risk_level"} |-> Str("extreme")])

\* C8: when the bag holds two or more source keys of one target, the target
\* ends with the value of the source that comes last in the rename table, and
\* every source key of it is gone, so the earlier sources' values are lost.
C8_LastSourceWins ==
    propsOut # None =>
        LET given == The(propsIn)
            got == The(propsOut)
        IN  \A target \in Targets :
                LET held == SourcesOf(target) \cap DOMAIN given
                    last == propertyMappings[LastSource(given, target)][1]
                IN  Cardinality(held) >= 2 =>
                        /\ DOMAIN got \cap (SourcesOf(target) \cup {target}) = {target}
                        /\ got[target] = Settled(target, given[last])

\* RISK_LEVEL and riskLevel came with different values; riskLevel's is kept
C8_Witness ==
    /\ propsOut # None
    /\ {"RISK_LEVEL", "riskLevel"} \subseteq DOMAIN The(propsIn)
    /\ The(propsIn)["RISK_LEVEL"] = Str("RED")
    /\ The(propsIn)["riskLevel"] = Str("Purple ")
    /\ The(propsOut) = [k \in {"risk_level"} |-> Str("purple")]

\* the value the risk table gives a scalar, as the claim describes it
tableValue(value) ==
    IF value.t # "string" THEN value
    ELSE LET text == trim(toLowerCase(value.s))
         IN  IF text \in DOMAIN riskMappings THEN Str(riskMappings[text])
             ELSE Str(text)

\* what `key` holds once the table's renames are done
renamedValue(given, key) ==
    IF SourcesOf(key) \cap DOMAIN given # {}
    THEN given[propertyMappings[LastSource(given, key)][1]]
    ELSE given[key]

\* C9 (as claimed): the values of risk_level and severity, and no others,
\* are standardized: a text is lower-cased, trimmed and mapped by the table,
\* a text the table does not hold comes back lower-cased and trimmed, a value
\* that is not a text comes back unchanged.
C9_ValuesStandardized ==
    propsOut # None =>
        LET given == The(propsIn)
            got == The(propsOut)
        IN  \A key \in DOMAIN got :
                got[key] = IF key \in {"risk_level", "severity"}
                           THEN tableValue(renamedValue(given, key))
                           ELSE renamedValue(given, key)

---------------------------------------------------------------------------
(* The representative coordinate and the area of one feature after another *)

\* the map takes up a feature
Pick(feature) ==
    /\ geomIn = None
    /\ geomIn' = Some(feature)
    /\ UNCHANGED <<build, clock, doc, valid, arg, out, outAt, again, againAt,
                   propsIn, propsOut, coordsOut, areaOut,
                   located, loaderVars, mapVars>>

\* onEachFeature asks for the coordinate to show in the popup
Locate ==
    /\ geomIn # None
    /\ coordsOut = None
    /\ coordsOut' = Some(getFeatureCoordinates(The(geomIn)))
    /\ UNCHANGED <<build, clock, doc, valid, arg, out, outAt, again, againAt,
                   propsIn, propsOut, geomIn, areaOut,
                   located, loaderVars, mapVars>>

\* processFeature asks for the area of a Polygon or MultiPolygon
Measure ==
    /\ geomIn # None
    /\ areaOut = None
    /\ IsPolygonal(The(geomIn))
    /\ ~areaThrows(The(The(geomIn).geometry))
    /\ areaOut' = Some(calculateApproximateArea(The(The(geomIn).geometry)))
    /\ UNCHANGED <<build, clock, doc, valid, arg, out, outAt, again, againAt,
                   propsIn, propsOut, geomIn, coordsOut,
                   located, loaderVars, mapVars>>

\* the map is done with the feature
Release ==
    /\ geomIn # None
    /\ geomIn' = None
    /\ coordsOut' = None
    /\ areaOut' = None
    /\ UNCHANGED <<build, clock, doc, valid, arg, out, outAt, again, againAt,
                   propsIn, propsOut,
                   located, loaderVars, mapVars>>

NextGeom ==
    \/ \E feature \in LocatedFeatures : Pick(feature)
    \/ Locate
    \/ Measure
    \/ Release

SpecGeom == Init /\ [][NextGeom]_vars

\* the sum of term(i) for i from lo to hi
RECURSIVE Sigma(_, _, _)
Sigma(term(_), lo, hi) ==
    IF lo > hi THEN 0 ELSE term(hi) + Sigma(term, lo, hi - 1)

\* the shoelace formula over the edges of a ring: twice the signed area A,
\* and the centroid (sum of (x_i + x_j) * c_i) / 6A, (sum of (y_i + y_j) * c_i) / 6A
\* with c_i = x_i * y_j - x_j * y_i and j = i + 1
edge(ring, i) == ring[i][1] * ring[i + 1][2] - ring[i + 1][1] * ring[i][2]
twiceArea(ring) == LET c(i) == edge(ring, i) IN Sigma(c, 1, Len(ring) - 1)
shoelaceCentroid(ring) ==
    LET mx(i) == (ring[i][1] + ring[i + 1][1]) * edge(ring, i)
        my(i) == (ring[i][2] + ring[i + 1][2]) * edge(ring, i)
    IN  Coordinate(Frac(Sigma(mx, 1, Len(ring) - 1), 3 * twiceArea(ring)),
                   Frac(Sigma(my, 1, Len(ring) - 1), 3 * twiceArea(ring)))

\* the first ring of a Polygon, of the first polygon of a MultiPolygon
firstRing(geometry) ==
    IF geometry.type = Some("Polygon") THEN The(geometry.coordinates).rings[1]
    ELSE The(geometry.coordinates).polys[1][1]

hasFirstRing(geometry) ==
    /\ IsSome(geometry.coordinates)
    /\ \/ /\ geometry.type = Some("Polygon")
          /\ Len(The(geometry.coordinates).rings) > 0
       \/ /\ geometry.type = Some("MultiPolygon")
          /\ Len(The(geometry.coordinates).polys) > 0
          /\ Len(The(geometry.coordinates).polys[1]) > 0

\* C10: the coordinate of a Polygon is the shoelace centroid of its first
\* ring, that of a MultiPolygon the shoelace centroid of the first ring of its
\* first polygon, and no later ring or polygon changes it; that of a Point is
\* the point's own coordinates.  The square [[0,0],[2,0],[2,2],[0,2],[0,0]]
\* has centroid (1,1) and area 4.
C10_FirstRingCentroid ==
    /\ coordsOut # None =>
          LET g == The(geomIn).geometry
              got == The(coordsOut)
          IN  /\ (IsSome(g) /\ hasFirstRing(The(g))) =>
                    /\ twiceArea(firstRing(The(g))) # 0 =>
                          got = shoelaceCentroid(firstRing(The(g)))
                    /\ got = getPolygonCentroid(firstRing(The(g)))
                    /\ firstRing(The(g)) = Square => got = Coordinate(Whole(1), Whole(1))
              /\ (IsSome(g) /\ The(g).type = Some("Point") /\ IsSome(The(g).coordinates)) =>
                    got = Coordinate(Whole(The(The(g).coordinates).point[1]),
                                     Whole(The(The(g).coordinates).point[2]))
    /\ (areaOut # None /\ The(The(geomIn).geometry) = PolygonGeometry(<<Square>>)) =>
          areaOut = Some(Whole(4))

\* the square, followed by a second ring, has been located and measured
C10_Witness ==
    /\ geomIn = Some(Feature(Some(PolygonGeometry(<<Square, Unit>>)), Some(EmptyBag)))
    /\ coordsOut = Some(Coordinate(Whole(1), Whole(1)))
    /\ areaOut = Some(Whole(4))

---------------------------------------------------------------------------
(* Degenerate rings, under SpecGeom *)

\* a ring that has a first vertex and fewer than three distinct points, or
\* exactly two points, or a signed shoelace area of zero
degenerate(ring) ==
    /\ Len(ring) > 0
    /\ \/ Cardinality({ ring[i] : i \in 1..Len(ring) }) < 3
       \/ Len(ring) = 2
       \/ twiceArea(ring) = 0

firstVertex(ring) == Coordinate(Whole(ring[1][1]), Whole(ring[1][2]))

\* C11: for every ring with fewer than 3 distinct points (any ring of exactly
\* 2 points included) and every ring whose signed shoelace area is exactly
\* zero, the representative coordinate is the ring's first vertex and the
\* computed area is 0.
C11_DegenerateRings ==
    geomIn # None =>
       LET g == The(geomIn).geometry
       IN  (IsSome(g) /\ hasFirstRing(The(g)) /\ degenerate(firstRing(The(g)))) =>
              /\ coordsOut # None =>
                    The(coordsOut) = firstVertex(firstRing(The(g)))
              /\ (areaOut # None /\ The(g).type = Some("Polygon")) =>
                    The(areaOut) = Whole(0)

---------------------------------------------------------------------------
(* The area written to `calculated_area`, under Spec *)

\* the absolute shoelace area of a ring; a ring of fewer than 3 entries has
\* none (C11)
ringArea(ring) ==
    IF Len(ring) < 3 THEN Whole(0) ELSE Frac(Abs(twiceArea(ring)), 2)

\* the sum of the outer-ring areas of polygons 1..n
RECURSIVE outerAreas(_, _)
outerAreas(polys, n) ==
    IF n = 0 THEN Whole(0)
    ELSE FracAdd(outerAreas(polys, n - 1), ringArea(polys[n][1]))

\* C12: the `calculated_area` of a Polygon is the absolute shoelace area of
\* its first ring alone, whatever rings follow it; that of a MultiPolygon is
\* the sum over all its polygons of the absolute shoelace area of each
\* polygon's first ring: 5 for squares of area 4 and 1, and 0 when there is no
\* polygon.
C12_OuterRingArea ==
    Completed(out) =>
        \A i \in 1..Len(FeaturesOf(The(doc))) :
            LET f == FeaturesOf(The(doc))[i]
                g == The(f.geometry)
                c == The(g.coordinates)
                got == Get(The(FeaturesOf(The(out))[i].properties), "calculated_area")
            IN  IsPolygonal(f) =>
                  /\ g.type = Some("Polygon") =>
                        got = Some(Num(ringArea(c.rings[1])))
                  /\ g.type = Some("MultiPolygon") =>
                        got = Some(Num(outerAreas(c.polys, Len(c.polys))))
                  /\ g = MultiPolygonGeometry(<< <<Square>>, <<Unit>> >>) =>
                        got = Some(Num(Whole(5)))
                  /\ g = MultiPolygonGeometry(<<>>) => got = Some(Num(Whole(0)))

\* a square with a hole and two squares of area 4 and 1 have been measured in
\* one collection
C12_Witness ==
    /\ Completed(out)
    /\ \E i, j \in 1..Len(FeaturesOf(The(doc))) :
          /\ FeaturesOf(The(doc))[i].geometry
                = Some(PolygonGeometry(<<Square, Triangle>>))
          /\ Get(The(FeaturesOf(The(out))[i].properties), "calculated_area")
                = Some(Num(Whole(4)))
          /\ FeaturesOf(The(doc))[j].geometry
                = Some(MultiPolygonGeometry(<< <<Square>>, <<Unit>> >>))
          /\ Get(The(FeaturesOf(The(out))[j].properties), "calculated_area")
                = Some(Num(Whole(5)))

---------------------------------------------------------------------------
(* Features whose geometry the viewer does not support, under Spec *)

Unsupported(feature) ==
    \/ ~IsSome(feature.geometry)
    \/ The(feature.geometry).type \notin
          {Some("Point"), Some("Polygon"), Some("MultiPolygon")}

\* C13: for every feature whose geometry is absent or of a type other than
\* Point, Polygon and MultiPolygon, processGeoJSON completes; the feature's
\* properties come out stamped and standardized (no key of the rename table is
\* left that is not a target, `RISK_LEVEL: "RED"` has become
\* `risk_level: "extreme"`); `calculated_area` is as it was handed in, absent
\* when it was absent; and getFeatureCoordinates returns null for the feature.
C13_UnsupportedGeometry ==
    (/\ out # None
     /\ IsCollection(The(doc)) \/ IsFeature(The(doc))
     /\ \A i \in 1..Len(FeaturesOf(The(doc))) :
           Unsupported(FeaturesOf(The(doc))[i])) =>
        /\ The(out) # Thrown
        /\ Len(FeaturesOf(The(out))) = Len(FeaturesOf(The(doc)))
        /\ \A i \in 1..Len(FeaturesOf(The(doc))) :
              LET f == FeaturesOf(The(doc))[i]
                  given == IF IsSome(f.properties) THEN The(f.properties) ELSE EmptyBag
                  g == FeaturesOf(The(out))[i]
                  got == The(g.properties)
              IN  /\ IsSome(g.properties)
                  /\ g.geometry = f.geometry
                  /\ "processed_at" \in DOMAIN got
                  /\ \A key \in DOMAIN got : key \in Targets \/ key \notin Sources
                  /\ Get(given, "RISK_LEVEL") = Some(Str("RED")) =>
                        Get(got, "risk_level") = Some(Str("extreme"))
                  /\ Get(got, "calculated_area") = Get(given, "calculated_area")
                  /\ located # None => The(located)[i] = Some(NullCoordinate)

\* a LineString feature with `RISK_LEVEL` and a feature without geometry have
\* been normalized and put on the map
C13_Witness ==
    /\ Completed(out)
    /\ located # None
    /\ Len(FeaturesOf(The(doc))) = 2
    /\ FeaturesOf(The(doc))[1].geometry = Some(LineStringGeometry(TwoPoints))
    /\ Get(The(FeaturesOf(The(out))[1].properties), "risk_level") = Some(Str("extreme"))
    /\ FeaturesOf(The(doc))[2].geometry = None
    /\ The(located) = <<Some(NullCoordinate), Some(NullCoordinate)>>

---------------------------------------------------------------------------
(* A `processed_at` that came with the feature, under Spec *)

\* C17: for every feature handed in whose properties hold a `processed_at`
\* key, whatever its value (an empty text included), the feature
\* processGeoJSON returns holds that same value under `processed_at`, not the
\* time of the call.
C17_KeptWhenKeyPresent ==
    Completed(out) =>
        \A i \in 1..Len(FeaturesOf(The(doc))) :
            LET given == FeaturesOf(The(doc))[i].properties
                got == FeaturesOf(The(out))[i].properties
            IN  (IsSome(given) /\ "processed_at" \in DOMAIN The(given)) =>
                    Get(The(got), "processed_at") = Get(The(given), "processed_at")

---------------------------------------------------------------------------
(* A rename onto a target key that is already there, under SpecProps *)

\* C19: when the bag holds a target key of the rename table and one or more
\* of the source keys renamed to it, the target ends with the value of the
\* (last) source key and the value it held is lost; when the bag holds the
\* target and none of its sources, the target keeps its value.  (Under
\* risk_level and severity the value that ends there is then standardized.)
C19_SourceOverTarget ==
    propsOut # None =>
        LET given == The(propsIn)
            got == The(propsOut)
        IN  \A target \in Targets \cap DOMAIN given :
                LET held == SourcesOf(target) \cap DOMAIN given
                IN  /\ DOMAIN got \cap (SourcesOf(target) \cup {target}) = {target}
                    /\ held # {} =>
                          got[target] =
                              Settled(target,
                                      given[propertyMappings[LastSource(given, target)][1]])
                    /\ held = {} => got[target] = Settled(target, given[target])

\* `name` and `NAME` came with different values; NAME's is the one left
C19_Witness ==
    /\ propsIn = Some([k \in {"name", "NAME"} |->
                          IF k = "name" THEN Str("RED") ELSE Str("Purple ")])
    /\ propsOut = Some([k \in {"name"} |-> Str("Purple ")])

---------------------------------------------------------------------------
(* DataLoader.loadGeoJSON, call by call.  A call runs up to its first await *)
(* (the cache test and fetch), then from the response to its second await   *)
(* (response.json()), then to its return or throw.                          *)

StatusText(status) ==
    CharAt(Digits, (status \div 100) + 1)
    \o CharAt(Digits, ((status \div 10) % 10) + 1)
    \o CharAt(Digits, (status % 10) + 1)

\* the Error the catch block throws
Failed(url, message) == "Failed to load data from " \o url \o ": " \o message

\* the rest of loadGeoJSON caching the document before it is validated
settle_CacheFirst(b, held, url, data, t) ==
    IF ~isValidGeoJSON(data)
    THEN [pc |-> "rejected", result |-> None,
          error |-> Failed(url, "Invalid GeoJSON format"),
          cache |-> [held EXCEPT ![url] = Some(data)], normalized |-> FALSE]
    ELSE LET processedData == processGeoJSON(b, data, t).ret
         IN  IF processedData = Thrown
             THEN [pc |-> "rejected", result |-> None,
                   error |-> Failed(url, "Cannot read properties of undefined"),
                   cache |-> held, normalized |-> TRUE]
             ELSE [pc |-> "returned", result |-> Some(processedData), error |-> "",
                   cache |-> [held EXCEPT ![url] = Some(processedData)],
                   normalized |-> TRUE]

\* the rest of loadGeoJSON once response.json() has resolved to data: how the
\* call ends, what the cache then holds, and whether processGeoJSON was called
\* (the text of a TypeError is the engine's)
settle(b, held, url, data, t) ==
    IF ~isValidGeoJSON(data)
    THEN [pc |-> "rejected", result |-> None,
          error |-> Failed(url, "Invalid GeoJSON format"),
          cache |-> held, normalized |-> FALSE]
    ELSE LET processedData == processGeoJSON(b, data, t).ret
         IN  IF processedData = Thrown
             THEN [pc |-> "rejected", result |-> None,
                   error |-> Failed(url, "Cannot read properties of undefined"),
                   cache |-> held, normalized |-> TRUE]
             ELSE [pc |-> "returned", result |-> Some(processedData), error |-> "",
                   cache |-> [held EXCEPT ![url] = Some(processedData)],
                   normalized |-> TRUE]

othersUnchanged ==
    UNCHANGED <<build, doc, valid, arg, out, outAt, again, againAt,
                propsIn, propsOut, geomIn, coordsOut, areaOut, located, mapVars>>

\* loadGeoJSON(url) is called: a cached result is returned, otherwise fetch
\* is called and the call waits for the response
Load(url) ==
    /\ CallCount(calls) < MaxCalls
    /\ IF cache[url] # None
       THEN /\ calls' = AddCall(calls, [Fetching(url) EXCEPT !.pc = "returned",
                                                             !.result = cache[url]])
            /\ UNCHANGED fetches
       ELSE /\ fetches[url] < MaxFetches
            /\ calls' = AddCall(calls, Fetching(url))
            /\ fetches' = [fetches EXCEPT ![url] = @ + 1]
    /\ UNCHANGED <<clock, cache, normalizations, cleared>>
    /\ othersUnchanged

\* the response arrives: response.json() is awaited when response.ok, the
\* call throws otherwise
Respond(call, status) ==
    /\ call \in DOMAIN calls
    /\ call.pc = "fetching"
    /\ calls' = AddCall(RemoveCall(calls, call),
                        IF status \in 200..299
                        THEN [call EXCEPT !.pc = "parsing"]
                        ELSE [call EXCEPT !.pc = "rejected",
                                          !.error = Failed(call.url,
                                                           "HTTP error! status: "
                                                           \o StatusText(status))])
    /\ UNCHANGED <<clock, cache, fetches, normalizations, cleared>>
    /\ othersUnchanged

\* response.json() resolves to data and the call runs to its end, settled
\* once for the step
Parse(call, data) ==
    /\ call \in DOMAIN calls
    /\ call.pc = "parsing"
    /\ \E end \in { settle(build, cache, call.url, data, clock) } :
           /\ calls' = AddCall(RemoveCall(calls, call),
                               [pc |-> end.pc, url |-> call.url, data |-> Some(data),
                                result |-> end.result, error |-> end.error])
           /\ cache' = end.cache
           /\ normalizations' =
                 IF end.normalized
                 THEN [normalizations EXCEPT ![call.url] = @ + 1]
                 ELSE normalizations
    /\ UNCHANGED <<clock, fetches, cleared>>
    /\ othersUnchanged

\* the caller has taken the result, or caught the error
Take(call) ==
    /\ call \in DOMAIN calls
    /\ call.pc \in {"returned", "rejected"}
    /\ calls' = RemoveCall(calls, call)
    /\ UNCHANGED <<clock, cache, fetches, normalizations, cleared>>
    /\ othersUnchanged

clearCache ==
    /\ \E url \in URLs : cache[url] # None
    /\ cache' = [url \in URLs |-> None]
    /\ cleared' = TRUE
    /\ UNCHANGED <<clock, calls, fetches, normalizations>>
    /\ othersUnchanged

\* Map.size
getCacheSize == Cardinality({ url \in URLs : cache[url] # None })

NextLoader ==
    \/ \E url \in URLs : Load(url)
    \/ \E call \in DOMAIN calls, status \in Statuses : Respond(call, status)
    \/ \E call \in DOMAIN calls, data \in ServedDocuments : Parse(call, data)
    \/ \E call \in DOMAIN calls : Take(call)
    \/ clearCache

SpecLoader == Init /\ [][NextLoader]_vars

---------------------------------------------------------------------------
(* Claims about loadGeoJSON, under SpecLoader *)

\* a step in which one call goes from the state `call` to the state `ended`
Moves(call, ended) ==
    /\ call \in DOMAIN calls
    /\ ended \in DOMAIN calls'
    /\ ended # call
    /\ ended.url = call.url
    /\ calls' = AddCall(RemoveCall(calls, call), ended)

\* C14: a call whose response is not ok, or whose document isValidGeoJSON
\* refuses, ends rejected with an error and without a result; the step that
\* ends it calls processGeoJSON for no document and leaves the cache as it
\* was.  (The call's earlier steps, the cache test and fetch, write nothing to
\* the cache either.)
C14_InvalidRejected ==
    [][ /\ \A call \in DOMAIN calls, ended \in DOMAIN calls' :
              (/\ Moves(call, ended)
               /\ \/ call.pc = "fetching" /\ ended.pc # "parsing"
                  \/ /\ call.pc = "parsing"
                     /\ ~isValidGeoJSON(The(ended.data))) =>
                 /\ ended.pc = "rejected"
                 /\ ended.result = None
                 /\ Len(ended.error) > Len(Failed(call.url, ""))
                 /\ cache' = cache
                 /\ normalizations' = normalizations
        /\ fetches' # fetches => cache' = cache
      ]_vars

\* a call for one URL was rejected for its document while the result of the
\* other URL stays cached
C14_Witness ==
    \E call \in DOMAIN calls :
        /\ call.pc = "rejected"
        /\ call.data = Some([Blank EXCEPT !.type = Some("Topology")])
        /\ call.error = Failed(call.url, "Invalid GeoJSON format")
        /\ cache[call.url] = None
        /\ normalizations[call.url] = 0
        /\ getCacheSize = 1

\* C16: as long as clearCache has not been called, and however the calls
\* overlap, each URL has been fetched at most once and normalized at most
\* once, and every call that returned holds the result cached for its URL.
C16_AtMostOnce ==
    ~cleared =>
        /\ \A url \in URLs : fetches[url] <= 1 /\ normalizations[url] <= 1
        /\ \A call \in DOMAIN calls :
              call.pc = "returned" => call.result = cache[call.url]

---------------------------------------------------------------------------
(* WildfireMap: the layers it puts on the map, and UIControls' keydown      *)
(* listener.  A layer is the L.geoJSON built from a collection; the popup   *)
(* is the one the map holds open, the one closePopup() closes.              *)

FitPadding == 20

\* the points a geometry puts on the map
verticesOf(geometry) ==
    IF ~IsSome(geometry) \/ ~IsSome(The(geometry).coordinates) THEN {}
    ELSE LET type == The(The(geometry).type)
             coordinates == The(The(geometry).coordinates)
             ringPoints(ring) == { ring[i] : i \in 1..Len(ring) }
             polygonPoints(rings) == UNION { ringPoints(rings[i]) : i \in 1..Len(rings) }
         IN  CASE type = "Point" -> { coordinates.point }
               [] type = "LineString" -> ringPoints(coordinates.line)
               [] type = "Polygon" -> polygonPoints(coordinates.rings)
               [] type = "MultiPolygon" ->
                    UNION { polygonPoints(coordinates.polys[i]) :
                              i \in 1..Len(coordinates.polys) }
               [] OTHER -> {}

\* this.wildfireLayer.getBounds(): the box around the layer's points, not
\* valid when there is none
getBounds(data) ==
    LET items == The(data.features).items
        points == UNION { verticesOf(items[i].geometry) : i \in 1..Len(items) }
        least(values) == CHOOSE v \in values : \A w \in values : v <= w
        most(values) == CHOOSE v \in values : \A w \in values : w <= v
    IN  IF points = {} THEN [valid |-> FALSE, box |-> NoBox]
        ELSE [valid |-> TRUE,
              box |-> [sw |-> << least({ p[1] : p \in points }),
                                 least({ p[2] : p \in points }) >>,
                       ne |-> << most({ p[1] : p \in points }),
                                 most({ p[2] : p \in points }) >>]]

\* L.geoJSON runs onEachFeature on every feature while it builds the layer; a
\* TypeError in getFeatureCoordinates leaves L.geoJSON and addWildfireLayer
onEachFeatureThrows(data) ==
    \E i \in 1..Len(The(data.features).items) :
        LET feature == The(data.features).items[i]
        IN  IsSome(feature.properties) /\ getFeatureCoordinates(feature) = TypeError

\* `if (this.bounds && this.bounds.isValid()) this.map.fitBounds(...)`: the
\* view the map is left with
fitView(b, shown) ==
    IF b # None /\ The(b).valid
    THEN [kind |-> "fitted", box |-> The(b).box, padding |-> FitPadding]
    ELSE shown

\* the listener's switch without toLowerCase
dispatch_CaseSensitive(tag, key) ==
    IF tag = "INPUT" \/ tag = "TEXTAREA" THEN "return"
    ELSE CASE key = "f" -> "fitToBounds"
           [] key = "escape" -> "closePopup"
           [] key = "?" -> "showHelp"
           [] OTHER -> "break"

\* what the keydown listener calls
dispatch(tag, key) ==
    IF tag = "INPUT" \/ tag = "TEXTAREA" THEN "return"
    ELSE CASE toLowerCase(key) = "f" -> "fitToBounds"
           [] toLowerCase(key) = "escape" -> "closePopup"
           [] toLowerCase(key) = "?" -> "showHelp"
           [] OTHER -> "break"

mapOnly ==
    UNCHANGED <<build, clock, doc, valid, arg, out, outAt, again, againAt,
                propsIn, propsOut, geomIn, coordsOut, areaOut, located, loaderVars>>

\* the popup once a layer has left the map: a popup bound to one of its
\* features closes with it
popupWithout(layer) ==
    IF layer # None /\ popup = Some("feature") THEN None ELSE popup

\* addWildfireLayer(data): the layer held is taken out of the group, a new
\* one is built, put in the group and fitted to.  When building it throws,
\* the method is left after the removal.
addWildfireLayer(data) ==
    /\ built < MaxLayers
    /\ LET removed == IF wildfireLayer # None
                      THEN layerGroup \ {The(wildfireLayer)}
                      ELSE layerGroup
           layer == [id |-> built + 1, data |-> data]
       IN  IF onEachFeatureThrows(data)
           THEN /\ layerGroup' = removed
                /\ UNCHANGED <<wildfireLayer, bounds, view, built>>
           ELSE /\ wildfireLayer' = Some(layer)
                /\ layerGroup' = removed \cup {layer}
                /\ bounds' = Some(getBounds(data))
                /\ view' = fitView(Some(getBounds(data)), view)
                /\ built' = built + 1
    /\ popup' = popupWithout(wildfireLayer)
    /\ UNCHANGED lastKey
    /\ mapOnly

clearLayers ==
    /\ layerGroup' = {}
    /\ wildfireLayer' = None
    /\ bounds' = None
    /\ popup' = popupWithout(wildfireLayer)
    /\ UNCHANGED <<view, built, lastKey>>
    /\ mapOnly

fitToBounds ==
    /\ view' = fitView(bounds, view)
    /\ UNCHANGED <<layerGroup, wildfireLayer, bounds, popup, built, lastKey>>
    /\ mapOnly

\* the user drags the map
Pan ==
    /\ view.kind # "moved"
    /\ view' = [kind |-> "moved", box |-> NoBox, padding |-> 0]
    /\ UNCHANGED <<layerGroup, wildfireLayer, bounds, popup, built, lastKey>>
    /\ mapOnly

\* the user clicks a feature of a layer on the map: its popup opens
Click ==
    /\ \E layer \in layerGroup : Len(The(layer.data.features).items) > 0
    /\ popup' = Some("feature")
    /\ UNCHANGED <<layerGroup, wildfireLayer, bounds, view, built, lastKey>>
    /\ mapOnly

\* a keydown event reaches the listener of setupKeyboardShortcuts
KeyDown(key, tag) ==
    /\ LET called == dispatch(tag, key)
       IN  /\ lastKey' = Some([key |-> key, tag |-> tag, called |-> called])
           /\ view' = IF called = "fitToBounds" THEN fitView(bounds, view) ELSE view
           /\ popup' = CASE called = "closePopup" -> None
                         [] called = "showHelp" -> Some("help")
                         [] OTHER -> popup
    /\ UNCHANGED <<layerGroup, wildfireLayer, bounds, built>>
    /\ mapOnly

NextMap ==
    \/ \E data \in Datasets : addWildfireLayer(data)
    \/ clearLayers
    \/ fitToBounds
    \/ Pan
    \/ Click
    \/ \E key \in Keys, tag \in Tags : KeyDown(key, tag)

SpecMap == Init /\ [][NextMap]_vars

---------------------------------------------------------------------------
(* Claims about the keyboard and the layers, under SpecMap *)

\* C15: a keydown whose target is an INPUT or TEXTAREA element changes
\* nothing on the map; any other keydown with key "f" or "F" calls
\* fitToBounds (the view is fitted to the bounds when they are valid), with
\* key "Escape" closes the open popup, with key "?" opens the help popup, and
\* with any other key changes nothing.  No keydown touches the layers.
C15_Keyboard ==
    [][ LET key == The(lastKey').key
            tag == The(lastKey').tag
        IN  (lastKey' # None /\ KeyDown(key, tag)) =>
             LET typing == tag \in {"INPUT", "TEXTAREA"}
                 called == The(lastKey').called
             IN  /\ <<layerGroup, wildfireLayer, bounds, built>>'
                       = <<layerGroup, wildfireLayer, bounds, built>>
                 /\ typing => view' = view /\ popup' = popup /\ called = "return"
                 /\ (~typing /\ key \in {"f", "F"}) =>
                       /\ called = "fitToBounds"
                       /\ popup' = popup
                       /\ IF bounds # None /\ The(bounds).valid
                          THEN view'.kind = "fitted" /\ view'.box = The(bounds).box
                          ELSE view' = view
                 /\ (~typing /\ key = "Escape") => popup' = None /\ view' = view
                 /\ (~typing /\ key = "?") => popup' = Some("help") /\ view' = view
                 /\ (~typing /\ key \notin {"f", "F", "Escape", "?"}) =>
                       view' = view /\ popup' = popup
      ]_vars

\* after the user moved the map, "F" pressed outside a text field has fitted
\* the view to the layer again
C15_Witness ==
    /\ lastKey = Some([key |-> "F", tag |-> "BODY", called |-> "fitToBounds"])
    /\ wildfireLayer # None
    /\ bounds # None
    /\ The(bounds).valid
    /\ view = [kind |-> "fitted", box |-> The(bounds).box, padding |-> FitPadding]
    /\ popup = Some("feature")

\* C18: whatever addWildfireLayer and clearLayers calls were made, the layer
\* group holds at most one layer; it holds one exactly when `wildfireLayer`
\* is not null, and that one is `wildfireLayer`, the layer the most recent
\* addWildfireLayer built; and when `wildfireLayer` is null (as clearLayers
\* leaves it) `bounds` is null too and fitToBounds leaves the view as it is.
C18_OneLayer ==
    /\ Cardinality(layerGroup) <= 1
    /\ (layerGroup # {}) <=> (wildfireLayer # None)
    /\ wildfireLayer # None =>
          /\ layerGroup = {The(wildfireLayer)}
          /\ The(wildfireLayer).id = built
    /\ wildfireLayer = None =>
          /\ bounds = None
          /\ fitView(bounds, view) = view

====
